---- MODULE Spec2Model ----
(***************************************************************************)
(* Model of trellobackup.py: one run of main() after another against a     *)
(* backup working tree (directories, blob files, symbolic links) and a      *)
(* remote service whose boards, lists and cards change between runs.        *)
(*                                                                          *)
(* A name is a sequence of tokens: a token is a word without special        *)
(* characters, or one of the characters " ", "/", "(", ")" that normpath    *)
(* and the shell treat specially.  A path is a sequence of components       *)
(* below RESULTS_DIR_ROOT (itself free of spaces and shell characters);     *)
(* a component is a sequence of tokens.                                     *)
(*                                                                          *)
(* Environment: the remote service does not change while a run reads it;    *)
(* this machine is the only one that pushes, so `git pull` leaves the       *)
(* working tree as it is; the cloned repository holds a raw_tickets         *)
(* directory (nothing in the script creates it); board, list and card       *)
(* names are text, not crafted shell commands: a shell metacharacter in a   *)
(* name makes `rm -r` fail, it does not run anything else.                  *)
(***************************************************************************)
EXTENDS Naturals, Sequences, FiniteSets, TLC

VARIABLES
    pc,          \* position of the run in main() / retrieve_trello_data() / gitit()
    runs,        \* number of runs of main() started so far
    rootExists,  \* os.path.exists(RESULTS_DIR_ROOT)
    dirs,        \* directories of the working tree (set of paths)
    blobs,       \* regular files: path -> content
    links,       \* symbolic links: path -> relative target
    remote,      \* what the remote service holds during this run
    prev_files,  \* main(): current_files, the pre-run snapshot
    bi, li, ci,  \* loop positions: board, list, card
    where,       \* "archives" in the closed-card loop, "list" in a list's loop
    card_data,   \* dl_card(): card_data
    tree_path,   \* dl_card(): tree_path
    removals,    \* the `git rm` commands gitit issued in this run, in order
    rcode,       \* _git_cmd: the exit code of the last git command gitit issued
    log,         \* the steps of this run, in order (a repeated step is logged once)
    exc,         \* the exception that ended the run ("none" while it runs)
    hist         \* this run's wipes, link creations and card fetches, and whether
                 \* the run before it completed

vars == <<pc, runs, rootExists, dirs, blobs, links, remote, prev_files, bi, li, ci,
          where, card_data, tree_path, removals, rcode, log, exc, hist>>

\* ------------------------------------------------------------------ bounds
MaxRuns == 2
MaxComments == 2

\* ------------------------------------------------------------- small helpers
Range(s) == {s[i] : i \in DOMAIN s}

RECURSIVE SetToSeq(_)
SetToSeq(S) == IF S = {} THEN <<>>
               ELSE LET x == CHOOSE y \in S : TRUE IN <<x>> \o SetToSeq(S \ {x})

IsPrefix(p, q) == Len(p) <= Len(q) /\ SubSeq(q, 1, Len(p)) = p

Prefixes(p) == {SubSeq(p, 1, k) : k \in 1..Len(p)}

dirname(p) == SubSeq(p, 1, Len(p) - 1)

Replace(s, a, b) == [i \in DOMAIN s |-> IF s[i] = a THEN b ELSE s[i]]

AddExt(p, ext) == [p EXCEPT ![Len(p)] = Append(@, ext)]

NoDict == [k \in {} |-> k]

\* ------------------------------------------------------------------ config
BLOBS_ROOT == << <<"raw_tickets">> >>
TREE_ROOT == << <<"current">> >>
WelcomeBoard == <<"Welcome", " ", "Board">>
DeletedAccount == "COMPTE SUPPRIME"
CardKeys == {"id", "name", "description", "closed", "url", "member_ids", "short_id",
             "board_id", "list_id", "labels", "badges", "due", "checked"}
RedactedKeys == {"avatarHash", "fullName", "initials"}
ShellMeta == {"(", ")"}

\* ------------------------------------------------------- the remote service
BoardIds == {"b1", "b2"}
BoardOrder == <<"b1", "b2">>
CardIds == {"c1"}
CardOrder == <<"c1">>

BoardNames(b) == IF b = "b1" THEN {<<"Sales">>, <<"R", "(", "D", ")">>}
                 ELSE {WelcomeBoard, <<"Ops", "/", "QA">>}
CardNames == {<<"fix", " ", "a", "/", "b">>}

ListIdsOf(b) == IF b = "b1" THEN <<"l1">> ELSE <<"l2">>
ListName(l) == IF l = "l1" THEN <<"To", "/", "Do">> ELSE <<"In", " ", "progress">>

Absent == <<>>
Places(enum) == {Absent} \cup {<<b, "closed">> : b \in enum}
                  \cup UNION {{<<b, l>> : l \in Range(ListIdsOf(b))} : b \in enum}

FullMember(u) == [id |-> "m1", username |-> u, avatarHash |-> "h", fullName |-> "F",
                  initials |-> "I"]
Comment(m) == [idMemberCreator |-> "m1", memberCreator |-> m, date |-> "d",
               data |-> [text |-> "t"]]
NoAuthorComment == [idMemberCreator |-> "m1", date |-> "d", data |-> [text |-> "t"]]
CommentShapes == {NoAuthorComment, Comment(NoDict), Comment(FullMember("ann")),
                  Comment(FullMember("bob")),
                  Comment([id |-> "m1", username |-> "eve"])}
CommentLists == UNION {[1..n -> CommentShapes] : n \in 0..MaxComments}

DefaultBoardName(b) == CHOOSE n \in BoardNames(b) : TRUE
DefaultCardName == CHOOSE n \in CardNames : TRUE

\* The states of the remote service a run may meet (comments are drawn in ShapeWorlds).
Worlds ==
    {w \in [enum : SUBSET BoardIds,
            bname : [BoardIds -> UNION {BoardNames(b) : b \in BoardIds}],
            place : [CardIds -> Places(BoardIds)],
            cname : [CardIds -> CardNames],
            comments : {[c \in CardIds |-> <<>>]}] :
        /\ \A b \in BoardIds : /\ w.bname[b] \in BoardNames(b)
                              /\ (b \notin w.enum => w.bname[b] = DefaultBoardName(b))
        /\ \A c \in CardIds : /\ w.place[c] \in Places(w.enum)
                             /\ (w.place[c] = Absent => w.cname[c] = DefaultCardName)}

CardOf(w, c) ==
    [id |-> c, name |-> w.cname[c], description |-> "desc",
     closed |-> (w.place[c][2] = "closed"), url |-> "url", member_ids |-> <<>>,
     short_id |-> (IF c = "c1" THEN "1" ELSE "2"), board_id |-> w.place[c][1],
     list_id |-> (IF w.place[c][2] = "closed" THEN ListIdsOf(w.place[c][1])[1]
                  ELSE w.place[c][2]),
     labels |-> <<>>, badges |-> "badges", due |-> "None", checked |-> FALSE,
     comments |-> w.comments[c], checklists |-> <<>>]

list_boards(w) ==
    LET ids == SelectSeq(BoardOrder, LAMBDA b : b \in w.enum)
    IN  [i \in DOMAIN ids |-> [id |-> ids[i], name |-> w.bname[ids[i]]]]

closed_cards(w, board) ==
    LET ids == SelectSeq(CardOrder, LAMBDA c : w.place[c] = <<board.id, "closed">>)
    IN  [i \in DOMAIN ids |-> CardOf(w, ids[i])]

all_lists(board) ==
    LET ids == ListIdsOf(board.id)
    IN  [i \in DOMAIN ids |-> [id |-> ids[i], name |-> ListName(ids[i])]]

list_cards(w, board, list_) ==
    LET ids == SelectSeq(CardOrder, LAMBDA c : w.place[c] = <<board.id, list_.id>>)
    IN  [i \in DOMAIN ids |-> CardOf(w, ids[i])]

\* ------------------------------------------------------------------- utils
normpath(fragments) ==
    LET path_fragments == [i \in DOMAIN fragments |-> Replace(fragments[i], "/", "-")]
    IN  [i \in DOMAIN path_fragments |-> Replace(path_fragments[i], " ", "_")]

exists(d, b, l, p) == p \in d \/ p \in DOMAIN b \/ p \in DOMAIN l

\* os.makedirs: the directory and every missing ancestor
mkdir(d, b, l, path) ==
    LET full_path == normpath(path)
    IN  IF ~exists(d, b, l, full_path) THEN d \cup Prefixes(full_path) ELSE d

\* sh parses `rm -r <path>`: an unquoted parenthesis is a syntax error, rm is not run
\* and os.system's status is dropped.
ShellSafe(p) == \A i \in DOMAIN p : Range(p[i]) \cap ShellMeta = {}

rm_r(S, full_path) ==
    IF ShellSafe(full_path) THEN {p \in S : ~IsPrefix(full_path, p)} ELSE S

wipe_dirs(d, b, l, path) ==
    LET full_path == normpath(path)
        d1 == IF exists(d, b, l, full_path) THEN rm_r(d, full_path) ELSE d
        b1 == IF exists(d, b, l, full_path) THEN rm_r(DOMAIN b, full_path) ELSE DOMAIN b
        l1 == IF exists(d, b, l, full_path) THEN rm_r(DOMAIN l, full_path) ELSE DOMAIN l
    IN  [dirs |-> mkdir(d1, [p \in b1 |-> b[p]], [p \in l1 |-> l[p]], path),
         blobs |-> [p \in b1 |-> b[p]],
         links |-> [p \in l1 |-> l[p]]]

get_current_files(b, l) ==
    SetToSeq({p \in DOMAIN b : IsPrefix(BLOBS_ROOT, p)})
      \o SetToSeq({p \in DOMAIN l : IsPrefix(TREE_ROOT, p)})

CommonLen(p, q) ==
    CHOOSE k \in 0..Len(p) :
        /\ k <= Len(q)
        /\ SubSeq(p, 1, k) = SubSeq(q, 1, k)
        /\ (k = Len(p) \/ k = Len(q) \/ p[k + 1] # q[k + 1])

relpath(path, start) ==
    LET k == CommonLen(path, start)
    IN  [i \in 1..(Len(start) - k) |-> <<"..">>] \o SubSeq(path, k + 1, Len(path))

rel_path_from_link(blob_path, tp) == relpath(blob_path, tp)
rel_path(blob_path, tp) == relpath(blob_path, dirname(tp))

\* where a relative link target leads from the link's directory
RECURSIVE Resolve(_, _)
Resolve(dir, rel) ==
    IF rel = <<>> THEN dir
    ELSE IF Head(rel) = <<"..">> /\ dir # <<>> /\ dir[Len(dir)] # <<"..">>
         THEN Resolve(dirname(dir), Tail(rel))
         ELSE Resolve(Append(dir, Head(rel)), Tail(rel))

\* ---------------------------------------------------------------- dl_card
\* `del d[key]` raises KeyError when the key is missing
has_member_key(comm) == "memberCreator" \in DOMAIN comm
Truthy(comm) == "memberCreator" \in DOMAIN comm /\ DOMAIN comm["memberCreator"] # {}

KeyError(comm) ==
    \/ "idMemberCreator" \notin DOMAIN comm
    \/ Truthy(comm) /\ ~(RedactedKeys \subseteq DOMAIN comm["memberCreator"])

sentinel_author == [username |-> DeletedAccount]

trim_member(member_info) ==
    [k \in DOMAIN member_info \ RedactedKeys |-> member_info[k]]

trim_comment(comm) ==
    [k \in (DOMAIN comm \ {"idMemberCreator"}) \cup {"memberCreator"} |->
        IF k = "memberCreator"
        THEN (IF Truthy(comm) THEN trim_member(comm[k]) ELSE sentinel_author)
        ELSE comm[k]]

dl_card_data(card) ==
    [k \in CardKeys \cup {"comments", "checklists"} |->
        IF k = "comments" THEN [i \in DOMAIN card.comments |-> trim_comment(card.comments[i])]
        ELSE IF k = "checklists"
             THEN [i \in DOMAIN card.checklists |->
                     [id |-> card.checklists[i].id, name |-> card.checklists[i].name,
                      items |-> card.checklists[i].items]]
             ELSE card[k]]

toyaml(data) == [fmt |-> "yaml", doc |-> data]

RECURSIVE JoinComments(_)
JoinComments(cs) ==
    IF cs = <<>> THEN <<>>
    ELSE << <<cs[1]["memberCreator"]["username"]>>, <<cs[1]["date"]>>, <<>>,
            <<cs[1]["data"]["text"]>>, <<>> >> \o JoinComments(Tail(cs))

totxt(data) ==
    [fmt |-> "txt",
     lines |-> <<data["name"], <<>>, <<data["description"]>>, <<>>, <<"Comments:">>>>
                 \o JoinComments(data["comments"])]

blob_path(data, ext) == AddExt(normpath(<<<<"raw_tickets">>, <<data["id"]>>>>), ext)

board_dirname(board) == <<board.id, "_">> \o board.name
list_name_path(list_) == <<list_.id, "_">> \o list_.name
card_file_by_id(card) == <<card.id, "_">> \o card.name
card_file(card) == <<card.short_id, "_">> \o card.name

whole_tree(b) == <<<<"current">>>>
board_dir(b) == <<<<"current">>, board_dirname(b)>>
archives_dir(b) == <<<<"current">>, board_dirname(b), <<"archives">>>>
list_dir(b, list_) == <<<<"current">>, board_dirname(b), list_name_path(list_)>>

closed_tree_path(board, card) ==
    normpath(<<<<"current">>, board_dirname(board), <<"archives">>, card_file(card)>>)
open_tree_path(board, list_, card) ==
    normpath(<<<<"current">>, board_dirname(board), list_name_path(list_), card_file(card)>>)

\* ------------------------------------------------------------ run position
boards == list_boards(remote)
board == boards[bi]
lists == all_lists(board)
cards == IF where = "archives" THEN closed_cards(remote, board)
         ELSE list_cards(remote, board, lists[li])

Log(tag) == IF log # <<>> /\ log[Len(log)] = tag THEN log ELSE Append(log, tag)

NoHist == [wiped |-> {}, written |-> {}, fetched |-> {}, prev_done |-> FALSE]

fsvars == <<dirs, blobs, links>>
loopvars == <<bi, li, ci, where>>
cardvars == <<card_data, tree_path>>
gitvars == <<removals, rcode>>

Init ==
    /\ pc = "idle" /\ runs = 0 /\ rootExists = FALSE
    /\ dirs = {} /\ blobs = NoDict /\ links = NoDict
    /\ remote \in {w \in Worlds : w.enum = {}}
    /\ prev_files = <<>> /\ bi = 1 /\ li = 1 /\ ci = 1 /\ where = "list"
    /\ card_data = NoDict /\ tree_path = <<>>
    /\ removals = <<>> /\ rcode = 0 /\ log = <<>> /\ exc = "none" /\ hist = NoHist

\* ------------------------------------------------------------------- main
\* The scheduler starts a run; the remote service is in any of its states.
StartRun ==
    /\ pc \in {"idle", "done", "aborted"} /\ runs < MaxRuns
    /\ runs' = runs + 1
    /\ remote' \in Worlds
    /\ pc' = IF rootExists THEN "pull" ELSE "clone"
    /\ prev_files' = <<>> /\ bi' = 1 /\ li' = 1 /\ ci' = 1 /\ where' = "list"
    /\ card_data' = NoDict /\ tree_path' = <<>>
    /\ removals' = <<>> /\ rcode' = 0 /\ log' = <<>> /\ exc' = "none"
    /\ hist' = [NoHist EXCEPT !.prev_done = (pc = "done")]
    /\ UNCHANGED <<rootExists, dirs, blobs, links>>

\* get_repo: a failed clone leaves no working tree, and the chdir that follows raises.
GetRepo ==
    /\ pc = "clone"
    /\ log' = Log("clone")
    /\ \E rc \in {0, 1} :
         IF rc = 0
         THEN /\ rootExists' = TRUE /\ dirs' = dirs \cup {BLOBS_ROOT}
              /\ pc' = "pull" /\ exc' = exc
         ELSE /\ pc' = "aborted" /\ exc' = "os" /\ UNCHANGED <<rootExists, dirs>>
    /\ UNCHANGED <<runs, blobs, links, remote, prev_files, loopvars, cardvars, gitvars, hist>>

GitPull ==
    /\ pc = "pull"
    /\ log' = Log("pull")
    /\ pc' = "snapshot"
    /\ UNCHANGED <<runs, rootExists, fsvars, remote, prev_files, loopvars, cardvars,
                   gitvars, exc, hist>>

Snapshot ==
    /\ pc = "snapshot"
    /\ prev_files' = get_current_files(blobs, links)
    /\ log' = Log("snapshot")
    /\ pc' = "list_boards"
    /\ UNCHANGED <<runs, rootExists, fsvars, remote, loopvars, cardvars, gitvars, exc, hist>>

\* ---------------------------------------------------- retrieve_trello_data
ListBoards ==
    /\ pc = "list_boards"
    /\ bi' = 1 /\ pc' = "board"
    /\ UNCHANGED <<runs, rootExists, fsvars, remote, prev_files, li, ci, where, cardvars,
                   gitvars, log, exc, hist>>

RetrieveDone ==
    /\ pc = "board" /\ bi > Len(boards)
    /\ pc' = "gitit"
    /\ UNCHANGED <<runs, rootExists, fsvars, remote, prev_files, loopvars, cardvars,
                   gitvars, log, exc, hist>>

is_default_board_never(b) == FALSE
is_default_board(b) == b.name = WelcomeBoard

SkipWelcome ==
    /\ pc = "board" /\ bi <= Len(boards) /\ is_default_board(board)
    /\ bi' = bi + 1
    /\ UNCHANGED <<pc, runs, rootExists, fsvars, remote, prev_files, li, ci, where,
                   cardvars, gitvars, log, exc, hist>>

WipeBoard ==
    /\ pc = "board" /\ bi <= Len(boards) /\ ~is_default_board(board)
    /\ LET path == board_dir(board)
           fs == wipe_dirs(dirs, blobs, links, path)
       IN  /\ dirs' = fs.dirs /\ blobs' = fs.blobs /\ links' = fs.links
           /\ hist' = [hist EXCEPT !.wiped = @ \cup {normpath(path)}]
    /\ log' = Log("mutate")
    /\ pc' = "closed_cards"
    /\ UNCHANGED <<runs, rootExists, remote, prev_files, loopvars, cardvars, gitvars, exc>>

ClosedCards ==
    /\ pc = "closed_cards"
    /\ IF closed_cards(remote, board) # <<>>
       THEN LET path == archives_dir(board)
                fs == wipe_dirs(dirs, blobs, links, path)
            IN  /\ dirs' = fs.dirs /\ blobs' = fs.blobs /\ links' = fs.links
                /\ hist' = [hist EXCEPT !.wiped = @ \cup {normpath(path)}]
                /\ where' = "archives" /\ ci' = 1 /\ pc' = "card"
       ELSE /\ pc' = "all_lists"
            /\ UNCHANGED <<fsvars, hist, where, ci>>
    /\ UNCHANGED <<runs, rootExists, remote, prev_files, bi, li, cardvars, gitvars, log, exc>>

AllLists ==
    /\ pc = "all_lists"
    /\ li' = 1 /\ where' = "list" /\ pc' = "list"
    /\ UNCHANGED <<runs, rootExists, fsvars, remote, prev_files, bi, ci, cardvars,
                   gitvars, log, exc, hist>>

MkList ==
    /\ pc = "list" /\ li <= Len(lists)
    /\ dirs' = mkdir(dirs, blobs, links, list_dir(board, lists[li]))
    /\ log' = Log("mutate")
    /\ pc' = "list_cards"
    /\ UNCHANGED <<runs, rootExists, blobs, links, remote, prev_files, loopvars, cardvars,
                   gitvars, exc, hist>>

ListsDone ==
    /\ pc = "list" /\ li > Len(lists)
    /\ bi' = bi + 1 /\ pc' = "board"
    /\ UNCHANGED <<runs, rootExists, fsvars, remote, prev_files, li, ci, where, cardvars,
                   gitvars, log, exc, hist>>

ListCards ==
    /\ pc = "list_cards"
    /\ ci' = 1 /\ pc' = "card"
    /\ UNCHANGED <<runs, rootExists, fsvars, remote, prev_files, bi, li, where, cardvars,
                   gitvars, log, exc, hist>>

CardsDone ==
    /\ pc = "card" /\ ci > Len(cards)
    /\ IF where = "archives" THEN pc' = "all_lists" /\ li' = li
       ELSE pc' = "list" /\ li' = li + 1
    /\ UNCHANGED <<runs, rootExists, fsvars, remote, prev_files, bi, ci, where, cardvars,
                   gitvars, log, exc, hist>>

\* card.fetch(), the tree path, and dl_card up to the two dumps
DlCard ==
    /\ pc = "card" /\ ci <= Len(cards)
    /\ hist' = [hist EXCEPT !.fetched = @ \cup {cards[ci].id}]
    /\ tree_path' = IF where = "archives" THEN closed_tree_path(board, cards[ci])
                    ELSE open_tree_path(board, lists[li], cards[ci])
    /\ IF \E i \in DOMAIN cards[ci].comments : KeyError(cards[ci].comments[i])
       THEN pc' = "aborted" /\ exc' = "KeyError" /\ card_data' = card_data
       ELSE pc' = "dump_yaml" /\ exc' = exc /\ card_data' = dl_card_data(cards[ci])
    /\ UNCHANGED <<runs, rootExists, fsvars, remote, prev_files, loopvars, gitvars, log>>

\* write_card, first half: open(blob_path, 'w') and write
WriteBlob(ext, content, next) ==
    LET bp == blob_path(card_data, ext)
    IN  /\ IF dirname(bp) \in dirs
           THEN /\ blobs' = [p \in DOMAIN blobs \cup {bp} |->
                               IF p = bp THEN content ELSE blobs[p]]
                /\ pc' = next /\ exc' = exc /\ log' = Log("mutate")
           ELSE /\ pc' = "aborted" /\ exc' = "io" /\ UNCHANGED <<blobs, log>>
        /\ UNCHANGED <<runs, rootExists, dirs, links, remote, prev_files, loopvars,
                       cardvars, gitvars, hist>>

\* write_card, second half: os.symlink(rel_path, tree_path)
MakeLink(ext, next) ==
    LET tp == AddExt(tree_path, ext)
        bp == blob_path(card_data, ext)
    IN  /\ IF dirname(tp) \in dirs /\ ~exists(dirs, blobs, links, tp)
           THEN /\ links' = [p \in DOMAIN links \cup {tp} |->
                               IF p = tp THEN rel_path(bp, tp) ELSE links[p]]
                /\ hist' = [hist EXCEPT !.written = @ \cup {tp}]
                /\ pc' = next /\ exc' = exc /\ log' = Log("mutate")
           ELSE /\ pc' = "aborted" /\ exc' = "os" /\ UNCHANGED <<links, hist, log>>
        /\ UNCHANGED <<runs, rootExists, dirs, blobs, remote, prev_files, bi, li, where,
                       cardvars, gitvars>>

DumpYamlBlob == pc = "dump_yaml" /\ WriteBlob(".yaml", toyaml(card_data), "link_yaml")
DumpYamlLink == pc = "link_yaml" /\ MakeLink(".yaml", "dump_txt") /\ ci' = ci
DumpTxtBlob == pc = "dump_txt" /\ WriteBlob(".txt", totxt(card_data), "link_txt")
DumpTxtLink ==
    /\ pc = "link_txt" /\ MakeLink(".txt", "card")
    /\ ci' = IF pc' = "card" THEN ci + 1 ELSE ci

\* A remote API call raises: nothing catches it.
ApiCallPcs == {"list_boards", "closed_cards", "all_lists", "list_cards"}
ApiFailCaught ==
    /\ pc \in ApiCallPcs \/ (pc = "card" /\ ci <= Len(cards))
    /\ pc' = "gitit" /\ exc' = "api"
    /\ UNCHANGED <<runs, rootExists, fsvars, remote, prev_files, loopvars, cardvars,
                   gitvars, log, hist>>
ApiFail ==
    /\ pc \in ApiCallPcs \/ (pc = "card" /\ ci <= Len(cards))
    /\ pc' = "aborted" /\ exc' = "api"
    /\ UNCHANGED <<runs, rootExists, fsvars, remote, prev_files, loopvars, cardvars,
                   gitvars, log, hist>>

\* A write to the working tree raises (disk full, permissions): nothing catches it.
IoFail ==
    /\ pc \in {"dump_yaml", "link_yaml", "dump_txt", "link_txt"}
    /\ pc' = "aborted" /\ exc' = "io"
    /\ UNCHANGED <<runs, rootExists, fsvars, remote, prev_files, loopvars, cardvars,
                   gitvars, log, hist>>

\* ------------------------------------------------------------------ gitit
removals_of_all(prev, current_files) == prev
removals_of_kept(prev, current_files) ==
    SelectSeq(prev, LAMBDA old_file : old_file \in Range(current_files))
gitit_removals(prev, current_files) ==
    SelectSeq(prev, LAMBDA old_file : old_file \notin Range(current_files))

GitRm ==
    /\ pc = "gitit"
    /\ removals' = gitit_removals(prev_files, get_current_files(blobs, links))
    /\ rcode' \in IF removals' = <<>> THEN {rcode} ELSE {0, 1}
    /\ log' = IF removals' = <<>> THEN Log("listing") ELSE Append(Log("listing"), "rm")
    /\ pc' = "add"
    /\ UNCHANGED <<runs, rootExists, fsvars, remote, prev_files, loopvars, cardvars, exc, hist>>

GitAdd ==
    /\ pc = "add"
    /\ rcode' \in {0, 1}
    /\ log' = Log("add") /\ pc' = "commit"
    /\ UNCHANGED <<runs, rootExists, fsvars, remote, prev_files, loopvars, cardvars,
                   removals, exc, hist>>

GitCommitChecked ==
    /\ pc = "commit"
    /\ rcode' \in {0, 1}
    /\ log' = Log("commit")
    /\ IF rcode' = 0 THEN pc' = "push" /\ exc' = exc ELSE pc' = "aborted" /\ exc' = "git"
    /\ UNCHANGED <<runs, rootExists, fsvars, remote, prev_files, loopvars, cardvars,
                   removals, hist>>
GitCommit ==
    /\ pc = "commit"
    /\ rcode' \in {0, 1}
    /\ log' = Log("commit") /\ pc' = "push"
    /\ UNCHANGED <<runs, rootExists, fsvars, remote, prev_files, loopvars, cardvars,
                   removals, exc, hist>>

GitPush ==
    /\ pc = "push"
    /\ rcode' \in {0, 1}
    /\ log' = Append(log, "push") /\ pc' = "done"
    /\ UNCHANGED <<runs, rootExists, fsvars, remote, prev_files, loopvars, cardvars,
                   removals, exc, hist>>

Next ==
    \/ StartRun \/ GetRepo \/ GitPull \/ Snapshot
    \/ ListBoards \/ RetrieveDone \/ SkipWelcome \/ WipeBoard \/ ClosedCards
    \/ AllLists \/ MkList \/ ListsDone \/ ListCards \/ CardsDone
    \/ DlCard \/ DumpYamlBlob \/ DumpYamlLink \/ DumpTxtBlob \/ DumpTxtLink
    \/ ApiFail \/ IoFail
    \/ GitRm \/ GitAdd \/ GitCommit \/ GitPush

Spec == Init /\ [][Next]_vars

\* --------------------------------------------- the shaping of one card's data
\* The one card of board "Sales", closed or in its list, with every list of comments
\* the service may return.
ShapeWorlds ==
    {[enum |-> {"b1"},
      bname |-> [b \in BoardIds |-> IF b = "b1" THEN <<"Sales">> ELSE DefaultBoardName(b)],
      place |-> [c \in CardIds |-> pl],
      cname |-> [c \in CardIds |-> DefaultCardName],
      comments |-> [c \in CardIds |-> cm]] :
        pl \in {<<"b1", "closed">>, <<"b1", "l1">>}, cm \in CommentLists}

\* A run that has pulled and taken its snapshot of an empty working tree.
InitShape ==
    /\ pc = "list_boards" /\ runs = 1 /\ rootExists = TRUE
    /\ dirs = {BLOBS_ROOT} /\ blobs = NoDict /\ links = NoDict
    /\ remote \in ShapeWorlds
    /\ prev_files = <<>> /\ bi = 1 /\ li = 1 /\ ci = 1 /\ where = "list"
    /\ card_data = NoDict /\ tree_path = <<>>
    /\ removals = <<>> /\ rcode = 0 /\ log = <<"pull", "snapshot">> /\ exc = "none"
    /\ hist = NoHist

NextShape ==
    \/ ListBoards \/ RetrieveDone \/ WipeBoard \/ ClosedCards
    \/ AllLists \/ MkList \/ ListsDone \/ ListCards \/ CardsDone
    \/ DlCard \/ DumpYamlBlob \/ DumpYamlLink \/ DumpTxtBlob \/ DumpTxtLink

SpecShape == InitShape /\ [][NextShape]_vars

\* ======================================================================
\* Properties
\* ======================================================================
RetrieveComplete == pc \in {"gitit", "add", "commit", "push", "done"}
AfterRemovals == pc \in {"add", "commit", "push", "done"}
Visited == {boards[i] : i \in {j \in DOMAIN boards : boards[j].name # WelcomeBoard}}
Under(S, dir) == {p \in S : IsPrefix(dir, p)}
Target(p) == Resolve(dirname(p), links[p])
Ext(p) == p[Len(p)][Len(p[Len(p)])]
OnDisk == Range(get_current_files(blobs, links))
\* the cards the remote service holds on the boards this run visits
VisibleCards == {c \in CardIds : \E b \in Visited : remote.place[c] # Absent
                                                   /\ remote.place[c][1] = b.id}
BoardOfCard(c) == CHOOSE b \in Visited : remote.place[c][1] = b.id
BlobOf(c, ext) == << <<"raw_tickets">>, <<c, ext>> >>
\* current/<board-id>_<board-name>/<archives | list-id_list-name>/<short_id>_<name>.<ext>
ExpectedLink(c, ext) ==
    LET b == BoardOfCard(c)
        card == CardOf(remote, c)
        sub == IF card.closed THEN <<"archives">>
               ELSE <<card.list_id, "_">> \o ListName(card.list_id)
    IN  AddExt(normpath(<<<<"current">>, <<b.id, "_">> \o b.name, sub,
                          <<card.short_id, "_">> \o card.name>>), ext)
LinksTo(S, c, ext) == {p \in S : Target(p) = BlobOf(c, ext)}

\* C1: in every reachable state, also after an aborted run, every symbolic link under
\* the current tree resolves, from its parent directory, to an existing blob file
\* under raw_tickets with the link's extension; write_card has written the blob when
\* it is about to create the link.
C1_LinksResolve ==
    /\ \A p \in DOMAIN links :
         /\ IsPrefix(TREE_ROOT, p)
         /\ Target(p) \in DOMAIN blobs
         /\ IsPrefix(BLOBS_ROOT, Target(p))
         /\ Ext(Target(p)) = Ext(p)
    /\ pc = "link_yaml" => blob_path(card_data, ".yaml") \in DOMAIN blobs
    /\ pc = "link_txt" => blob_path(card_data, ".txt") \in DOMAIN blobs

C1_Witness ==
    /\ pc = "aborted" /\ exc = "io" /\ runs = 2
    /\ hist.written # {}
    /\ \E p \in DOMAIN links : p \notin hist.written

DirOf(b) == normpath(<<<<"current">>, <<b.id, "_">> \o b.name>>)

\* C2: after a completed retrieve_trello_data() (here: in a run that follows a
\* completed run), for every visited board the links under
\* current/<board-id>_<board-name> are exactly the links written in this run.
C2_BoardDirIsThisRun ==
    (RetrieveComplete /\ hist.prev_done) =>
        \A b \in Visited :
            Under(DOMAIN links, DirOf(b)) = Under(hist.written, DirOf(b))

\* Supporting check for C2: the same holds of every visited board whose directory
\* name has no shell metacharacter, whatever the run before did.
C2_SafeBoardDirIsThisRun ==
    RetrieveComplete =>
        \A b \in Visited :
            ShellSafe(DirOf(b)) =>
                Under(DOMAIN links, DirOf(b)) = Under(hist.written, DirOf(b))

\* a link of the snapshot that lies in the directory of a board this run does not enumerate
Vanished(p) == IsPrefix(TREE_ROOT, p) /\ Len(p) >= 3 /\ p[2][1] \notin remote.enum

C4_RemovalsAreDifference ==
    AfterRemovals =>
        /\ Range(removals) = Range(prev_files) \ OnDisk
        /\ Len(removals) = Cardinality(Range(prev_files) \ OnDisk)

C4_Witness ==
    /\ pc = "done" /\ removals # <<>>
    /\ Range(prev_files) \cap OnDisk # {}
    /\ OnDisk \ Range(prev_files) # {}

\* C5: no step removes a blob file; every wipe_dir of a run targets current/<board>
\* or current/<board>/archives; gitit issues no removal for a file under raw_tickets.
C5_BlobsStay ==
    [][ /\ DOMAIN blobs \subseteq DOMAIN blobs'
        /\ \A p \in hist'.wiped :
             /\ Len(p) \in {2, 3} /\ p[1] = <<"current">>
             /\ Len(p) = 3 => p[3] = <<"archives">>
        /\ \A p \in Range(removals') : ~IsPrefix(BLOBS_ROOT, p) ]_vars

C5_Witness ==
    /\ pc = "done" /\ removals # <<>>
    /\ \A c \in CardIds : remote.place[c] = Absent
    /\ \E c \in CardIds : BlobOf(c, ".yaml") \in DOMAIN blobs /\ BlobOf(c, ".txt") \in DOMAIN blobs

WelcomeDirs == {normpath(<<<<"current">>, <<b, "_">> \o WelcomeBoard>>)[2] : b \in BoardIds}

\* C7: a board named 'Welcome Board' gets no directory, no link and no card fetch;
\* a completed run that enumerates only such boards wipes and writes nothing, issues
\* no removal and leaves the files under raw_tickets and current as the snapshot.
C7_WelcomeSkipped ==
    /\ \A p \in dirs \cup DOMAIN links \cup hist.wiped : Len(p) >= 2 => p[2] \notin WelcomeDirs
    /\ \A c \in hist.fetched : remote.bname[remote.place[c][1]] # WelcomeBoard
    /\ (RetrieveComplete /\ \A b \in remote.enum : remote.bname[b] = WelcomeBoard) =>
         /\ hist.wiped = {} /\ hist.written = {} /\ hist.fetched = {}
         /\ OnDisk = Range(prev_files)
         /\ removals = <<>>

C7_Witness ==
    /\ pc = "done" /\ remote.enum # {}
    /\ \A b \in remote.enum : remote.bname[b] = WelcomeBoard
    /\ \E c \in CardIds : remote.place[c] # Absent
    /\ \E p \in Range(prev_files) : IsPrefix(TREE_ROOT, p)

NoAuthor(comm) == "memberCreator" \notin DOMAIN comm \/ DOMAIN comm["memberCreator"] = {}

\* C8: every stored comment has no idMemberCreator and its memberCreator has none of
\* avatarHash, fullName, initials; a comment without author information never makes
\* the shaping fail, and once the run is through it is stored with the sentinel author
\* in the card's blob, whose links exist.
C8_Redaction ==
    /\ \A p \in DOMAIN blobs :
         blobs[p].fmt = "yaml" =>
            \A i \in DOMAIN blobs[p].doc["comments"] :
               LET comm == blobs[p].doc["comments"][i]
               IN  /\ "idMemberCreator" \notin DOMAIN comm
                   /\ "memberCreator" \in DOMAIN comm
                   /\ DOMAIN comm["memberCreator"] \cap {"avatarHash", "fullName", "initials"} = {}
    /\ exc = "KeyError" =>
         \E c \in CardIds : \E i \in DOMAIN remote.comments[c] : ~NoAuthor(remote.comments[c][i])
    /\ RetrieveComplete =>
         \A c \in VisibleCards :
            /\ {BlobOf(c, ".yaml"), BlobOf(c, ".txt")} \subseteq DOMAIN blobs
            /\ \A ext \in {".yaml", ".txt"} : LinksTo(DOMAIN links, c, ext) # {}
            /\ \A i \in DOMAIN remote.comments[c] :
                 NoAuthor(remote.comments[c][i]) =>
                    blobs[BlobOf(c, ".yaml")].doc["comments"][i]["memberCreator"]
                      = [username |-> "COMPTE SUPPRIME"]

C8_Witness ==
    /\ RetrieveComplete
    /\ \E c \in VisibleCards :
         /\ BlobOf(c, ".yaml") \in DOMAIN blobs
         /\ \E i, j \in DOMAIN remote.comments[c] :
              /\ "memberCreator" \notin DOMAIN remote.comments[c][i]
              /\ "memberCreator" \in DOMAIN remote.comments[c][j]
              /\ DOMAIN remote.comments[c][j]["memberCreator"] = {}

GitWrites == {"listing", "rm", "add", "commit", "push"}

\* C9: a failed remote API call ends the run where it is: the working tree is left
\* as it was at the failing call, the run issues no removal, commit or push, and
\* nothing happens afterwards except the start of the next run.
C9_ApiFailureAborts ==
    [][ /\ exc' = "api" =>
             /\ pc' = "aborted"
             /\ removals' = <<>>
             /\ Range(log') \cap GitWrites = {}
        /\ (exc # "api" /\ exc' = "api") => UNCHANGED <<dirs, blobs, links, loopvars, hist>>
        /\ exc = "api" => runs' = runs + 1 ]_vars

C9_Witness ==
    /\ pc = "aborted" /\ exc = "api" /\ runs = 2
    /\ hist.written # {} /\ hist.wiped # {}
    /\ bi < Len(boards)

RunOrders ==
    {a \o <<"pull", "snapshot">> \o m \o <<"listing">> \o r \o <<"add", "commit", "push">> :
        a \in {<<>>, <<"clone">>}, m \in {<<>>, <<"mutate">>}, r \in {<<>>, <<"rm">>}}

\* C10: the steps of a run come in the order pull, snapshot, wipes and writes,
\* listing and removals, add, commit, push; a completed run has done each of them,
\* push exactly once and last, whatever the exit codes of rm, add and commit.
C10_StepOrder ==
    [][ /\ \E o \in RunOrders : IsPrefix(log', o)
        /\ pc' = "done" => log' \in RunOrders
        /\ (hist'.wiped # {} \/ hist'.written # {}) => "mutate" \in Range(log')
        /\ pc = "add" => pc' = "commit"
        /\ pc = "commit" => pc' = "push"
        /\ pc = "push" => pc' = "done" /\ log' = Append(log, "push") ]_vars

C10_Witness ==
    /\ pc = "push" /\ rcode = 1
    /\ "rm" \in Range(log) /\ "mutate" \in Range(log)

====
